---- MODULE Spec2Model ----
(***************************************************************************)
(* A model of trendbot (src/index.ts): the token-card renderer             *)
(* generateImageForCast (word wrap, text box layout, ellipsis fitting,     *)
(* emblem, footer) and the pipeline processTrendingCasts that calls it.    *)
(*                                                                         *)
(* A string is a sequence of one-character strings.  The canvas's          *)
(* measureText is modelled by a measurement backend: a record giving the   *)
(* advance of a glyph, of a space and of a full stop per pixel of font     *)
(* size; the width of a string is the sum of the advances of its           *)
(* characters at the font size set on the context.                         *)
(***************************************************************************)
EXTENDS Integers, Sequences, FiniteSets, TLC

\* ---------------------------------------------------------------- bounds
\* Cast texts are  head \o unit^k : the head and the unit are arbitrary
\* strings over Alphabet of at most MaxHead and MaxUnit characters.
MaxHead == 2
MaxUnit == 2
MaxRep == 7
\* Readings of the wall clock.
MaxClock == 1

\* ------------------------------------------------------- program constants
width == 1200
height == 1200
maxWidth == width - 280
lineHeight == 48
textBoxPadding == 40
textBoxY == 340
maxTextBoxHeight == 460
tokenRadius == 150
tokenGap == 100

NL == "\n"
SP == " "
DOT == "."
Ellipsis == <<DOT, DOT, DOT>>
Placeholder ==
  <<"N","o"," ","c","a","s","t"," ","t","e","x","t"," ",
    "a","v","a","i","l","a","b","l","e">>
\* An optional value is a sequence of at most one element: None is
\* undefined (or null), Some(x) is x.
None == <<>>
Some(x) == <<x>>

\* ------------------------------------------------------------ the inputs
Alphabet == {"a", SP, NL}

Strings(n) == UNION {[1..k -> Alphabet] : k \in 0..n}

RECURSIVE Repeat(_, _)
Repeat(u, k) == IF k = 0 THEN <<>> ELSE u \o Repeat(u, k - 1)

ScenarioText ==
  <<"l","i","n","e"," ","o","n","e",NL,"l","i","n","e"," ","t","w","o">>

CastTexts ==
  {h \o Repeat(u, k) :
      h \in Strings(MaxHead), u \in Strings(MaxUnit) \ {<<>>}, k \in 0..MaxRep}
  \cup {ScenarioText}

\* Measurement backends: advances per pixel of font size.  At 36px a glyph
\* is 36, 108, 576 or 1008 pixels wide and "..." 108, 108, 432 or 972: under
\* the first the placeholder fits on one line, under the second a line
\* holds a few short words, under the third a line holds one glyph and "..."
\* takes the room of the glyph, under the last neither a glyph nor "..."
\* fits in maxWidth.
Backends ==
  { [glyph |-> 1,  space |-> 1, dot |-> 1],
    [glyph |-> 3,  space |-> 3, dot |-> 1],
    [glyph |-> 16, space |-> 2, dot |-> 4],
    [glyph |-> 28, space |-> 3, dot |-> 9] }

\* The Cast records of lines 16-28.
MkCast(text, hash, username, displayName) ==
  [text |-> text, hash |-> hash,
   author |-> [username |-> username, display_name |-> displayName]]

\* Casts used where the text need not range over all of CastTexts: the empty
\* text, the two-line scenario, a text of eight short lines, a text of
\* three words.
SampleCasts ==
  { MkCast(<<>>, "0xa", <<"u">>, <<>>),
    MkCast(ScenarioText, "0xb", <<"v">>, <<"a","a","a","a">>),
    MkCast(Repeat(<<"a", NL>>, 8), "0xc", <<"w">>, <<"a">>),
    MkCast(<<"a"," ","a"," ","a">>, "0xd", <<"u">>, <<>>) }

Casts ==
  {MkCast(t, "0xe", <<"u">>, <<>>) : t \in CastTexts} \cup SampleCasts

TokenNames == {<<"m","o","o","n">>}

\* ------------------------------------------------------- pure functions
\* ctx.measureText(s).width with ctx.font = "<px>px sans-serif"
Advance(b, c) ==
  IF c = SP THEN b.space
  ELSE IF c = DOT THEN b.dot
  ELSE IF c = NL THEN 0
  ELSE b.glyph

RECURSIVE MeasureText(_, _, _)
MeasureText(b, s, px) ==
  IF s = <<>> THEN 0
  ELSE Advance(b, Head(s)) * px + MeasureText(b, Tail(s), px)

\* String.prototype.split(sep) for a one-character separator:
\* "".split(sep) is [""], and k separators give k + 1 parts.
RECURSIVE Split(_, _)
Split(s, sep) ==
  IF s = <<>> THEN << <<>> >>
  ELSE LET rest == Split(Tail(s), sep)
       IN IF Head(s) = sep
            THEN << <<>> >> \o rest
            ELSE << <<Head(s)>> \o Head(rest) >> \o Tail(rest)

\* String.prototype.includes(c)
Includes(s, c) == \E k \in 1..Len(s) : s[k] = c

\* String.prototype.slice(0, -1)
SliceLast(s) == IF s = <<>> THEN <<>> ELSE SubSeq(s, 1, Len(s) - 1)

Uppers ==
  <<"A","B","C","D","E","F","G","H","I","J","K","L","M",
    "N","O","P","Q","R","S","T","U","V","W","X","Y","Z">>
Lowers ==
  <<"a","b","c","d","e","f","g","h","i","j","k","l","m",
    "n","o","p","q","r","s","t","u","v","w","x","y","z">>
Digits == <<"0","1","2","3","4","5","6","7","8","9">>

IndexIn(seq, c) == CHOOSE k \in 1..Len(seq) : seq[k] = c
Includes1(seq, c) == \E k \in 1..Len(seq) : seq[k] = c

\* toLowerCase and toUpperCase, by character and by string
Lower(c) == IF Includes1(Uppers, c) THEN Lowers[IndexIn(Uppers, c)] ELSE c
Upper(c) == IF Includes1(Lowers, c) THEN Uppers[IndexIn(Lowers, c)] ELSE c
ToUpperCase(s) == [k \in 1..Len(s) |-> Upper(s[k])]

\* String.prototype.substring(0, n)
Substring0(s, n) == SubSeq(s, 1, IF n < Len(s) THEN n ELSE Len(s))

\* line 390: tokenName.substring(0, 1).toUpperCase()
FirstUpper(s) == ToUpperCase(Substring0(s, 1))

\* Array.prototype.slice(0, n)
Take(xs, n) ==
  IF n <= 0 THEN <<>> ELSE SubSeq(xs, 1, IF n < Len(xs) THEN n ELSE Len(xs))

Min(a, b) == IF a < b THEN a ELSE b

\* One canvas drawing call.
Draw(op, text, x, y, size) ==
  [op |-> op, text |-> text, x |-> x, y |-> y, size |-> size]

\* ------------------------------------------- the parse of the LLM response
IsDigit(c) == Includes1(Digits, c)
DigitValue(c) == IndexIn(Digits, c) - 1
\* \w
IsWordChar(c) ==
  IsDigit(c) \/ Includes1(Uppers, c) \/ Includes1(Lowers, c) \/ c = "_"

\* pat (in lower case) matches s at position p, whatever the case
MatchesAt(s, pat, p) ==
  /\ p + Len(pat) - 1 <= Len(s)
  /\ \A k \in 1..Len(pat) : Lower(s[p + k - 1]) = pat[k]

IsSpace(c) == c = SP \/ c = NL
NotBreakNorDot(c) == c # NL /\ c # DOT
NotWordChar(c) == ~IsWordChar(c)

\* the character classes \d, [^\w] and [^\n.]
InClass(c, class) ==
  CASE class = "\\d" -> IsDigit(c)
    [] class = "[^\\w]" -> NotWordChar(c)
    [] class = "[^\\n.]" -> NotBreakNorDot(c)

\* a greedy class* or class+ started at p: the index of the last character
\* of the longest stretch of s from p on whose characters are in the class
RunEnd(s, p, class) ==
  IF \E e \in p..Len(s) : ~InClass(s[e], class)
    THEN (CHOOSE e \in p..Len(s) :
            ~InClass(s[e], class) /\ \A k \in p..(e - 1) : InClass(s[k], class)) - 1
    ELSE Len(s)

SetMin(S) == CHOOSE x \in S : \A y \in S : x <= y
SetMax(S) == CHOOSE x \in S : \A y \in S : x >= y

\* Number.parseInt(digits, 10)
RECURSIVE ParseInt(_)
ParseInt(ds) ==
  IF ds = <<>> THEN 0
  ELSE ParseInt(SubSeq(ds, 1, Len(ds) - 1)) * 10 + DigitValue(ds[Len(ds)])

\* line 140: llmResponse?.match(/Cast (\d+)/i), its group 1
CastNumberMatch(resp) ==
  IF resp = None THEN None
  ELSE LET s == resp[1]
           starts == {p \in 1..Len(s) :
                        /\ MatchesAt(s, <<"c","a","s","t"," ">>, p)
                        /\ p + 5 <= Len(s)
                        /\ IsDigit(s[p + 5])}
       IN IF starts = {} THEN None
          ELSE LET p == SetMin(starts)
               IN Some(SubSeq(s, p + 5, RunEnd(s, p + 5, "\\d")))

\* lines 141-143
CastNumber(resp) ==
  IF CastNumberMatch(resp) # None
    THEN ParseInt(CastNumberMatch(resp)[1]) - 1
    ELSE 0

\* String.prototype.trim()
Trim(s) ==
  LET keep == {k \in 1..Len(s) : ~IsSpace(s[k])}
  IN IF keep = {} THEN <<>> ELSE SubSeq(s, SetMin(keep), SetMax(keep))

\* /<kw>[^:]*:[^\w]*([^\n.]+)/i tried at position p of s: its group 1.
\* After kw the first colon is the only one [^:]*: can end at; [^\w]* takes
\* all the non-word characters after it and gives back as few as leave the
\* group a first character.
FieldAt(s, kw, p) ==
  LET from == p + Len(kw)
      colons == {q \in from..Len(s) : s[q] = ":"}
  IN IF ~MatchesAt(s, kw, p) \/ colons = {} THEN None
     ELSE LET r == SetMin(colons) + 1
              e == RunEnd(s, r, "[^\\w]") + 1
              back == {c \in r..(e - 1) : NotBreakNorDot(s[c])}
              c == IF e <= Len(s) THEN e
                   ELSE IF back # {} THEN SetMax(back) ELSE 0
          IN IF c = 0 THEN None
             ELSE Some(SubSeq(s, c, RunEnd(s, c, "[^\\n.]")))

\* String.prototype.match of that expression: the leftmost match
FieldMatch(resp, kw) ==
  IF resp = None THEN None
  ELSE LET s == resp[1]
           starts == {p \in 1..Len(s) : FieldAt(s, kw, p) # None}
       IN IF starts = {} THEN None ELSE FieldAt(s, kw, SetMin(starts))

DefaultTokenName == <<"T","r","e","n","d","T","o","k","e","n">>
DefaultImageDescription ==
  <<"A"," ","t","r","e","n","d","y"," ","c","r","y","p","t","o"," ","t","o",
    "k","e","n"," ","v","i","s","u","a","l","i","z","a","t","i","o","n">>
KwSuggestedName ==
  <<"s","u","g","g","e","s","t","e","d"," ","n","a","m","e">>
KwImage == <<"i","m","a","g","e">>

\* lines 104-107: casts.slice(0, 10), the casts put into the prompt
ShownCasts(casts) == Take(casts, 10)

\* Array index: casts[n], undefined outside the array
At(xs, n) == IF n >= 0 /\ n < Len(xs) THEN Some(xs[n + 1]) ELSE None

\* lines 139-167: the result selectBestCastWithLLM builds from the response
ParseLLM(casts, resp) ==
  LET name == FieldMatch(resp, KwSuggestedName)
      desc == FieldMatch(resp, KwImage)
  IN [cast |-> At(casts, CastNumber(resp)),
      llmResponse |-> IF resp = None THEN <<>> ELSE resp[1],
      tokenName |-> IF name # None THEN Trim(name[1]) ELSE DefaultTokenName,
      imageDescription |->
        IF desc # None THEN Trim(desc[1]) ELSE DefaultImageDescription]

\* What the model may answer (message.content, null included).
LLMResponses ==
  { None,
    \* "Cast 1\nSuggested name: MoonCat\nImage: a cat."
    Some(<<"C","a","s","t"," ","1",NL,"S","u","g","g","e","s","t","e","d",
           " ","n","a","m","e",":"," ","M","o","o","n","C","a","t",NL,
           "I","m","a","g","e",":"," ","a"," ","c","a","t",".">>),
    Some(<<"c","a","s","t"," ","2">>),
    Some(<<"C","a","s","t"," ","3",".">>),
    Some(<<"C","a","s","t"," ","0">>),
    Some(<<"C","a","s","t"," ","1","2">>),
    Some(<<"n","o"," ","p","i","c","k">>) }

\* ----------------------------------------------------------------- state
VARIABLES
  backend,         \* the measurement backend behind ctx.measureText
  clock,           \* the last reading of the wall clock
  castInfo,        \* generateImageForCast: the cast argument
  tokenName,       \* generateImageForCast: the tokenName argument
  rpc,             \* generateImageForCast: position in the function
  castText, words, i, lines, currentLine,
  textBoxHeight, maxVisibleLines, visibleLines, vi, truncatedLine, tokenY,
  drawn,           \* the drawing calls made on the canvas so far
  buffer,          \* the buffer returned by the last completed call
  prevBuffer,      \* the buffer the call before that returned
  callNo,          \* number of calls of generateImageForCast started
  ppc,             \* processTrendingCasts: position in the function
  castData,        \* processTrendingCasts: what getTrendingCasts returned
  llmResult,       \* processTrendingCasts: what selectBestCastWithLLM returned
  imageBuffer,     \* processTrendingCasts: what generateImageForCast returned
  ipfsResult,      \* processTrendingCasts: what uploadImageToIPFS returned
  deployResult,    \* processTrendingCasts: what deployToken returned
  files,           \* the files written under images/ and data/
  calls            \* the stage functions and file writes started, in order

renderLocals ==
  <<castText, words, i, lines, currentLine, textBoxHeight, maxVisibleLines,
    visibleLines, vi, truncatedLine, tokenY>>
pipeVars ==
  <<ppc, castData, llmResult, imageBuffer, ipfsResult, deployResult, files,
    calls>>
\* what no step of generateImageForCast changes
renderArgs == <<backend, castInfo, tokenName, prevBuffer, callNo, pipeVars>>
vars ==
  <<backend, clock, castInfo, tokenName, rpc, castText, words, i, lines,
    currentLine, textBoxHeight, maxVisibleLines, visibleLines, vi,
    truncatedLine, tokenY, drawn, buffer, prevBuffer, callNo, ppc, castData,
    llmResult, imageBuffer, ipfsResult, deployResult, files, calls>>

\* ctx.measureText at the 36px font the wrap and the truncation run under
Measure36(s) == MeasureText(backend, s, 36)

\* ------------------------------------------- generateImageForCast, by step
\* The placeholder is not substituted.
TextToWrap_NoPlaceholder(text) == text

\* line 228: castInfo.text || "No cast text available"
TextToWrap(text) == IF text # <<>> THEN text ELSE Placeholder

\* The lines of the call before are kept, as if the array outlived the call.
InitialLines_KeptAcrossCalls == lines

\* line 237: const lines: string[] = []
InitialLines == <<>>

\* lines 182-238: canvas, background, title, divider, author block, and the
\* set-up of the wrap loop
BeginRender ==
  /\ rpc = "start"
  /\ LET dn == castInfo.author.display_name
         dnPx == IF MeasureText(backend, dn, 44) > width - 240 THEN 36 ELSE 44
         header ==
           << Draw("fillRect", <<>>, 0, 0, height),
              Draw("fillText", tokenName, width \div 2, 120, 72),
              Draw("line", <<>>, 100, 160, width - 100),
              Draw("fillText", <<"@">> \o castInfo.author.username, 120, 220, 36) >>
         name == IF dn # <<>> THEN <<Draw("fillText", dn, 120, 280, dnPx)>>
                 ELSE <<>>
         text == TextToWrap(castInfo.text)
     IN /\ drawn' = header \o name
        /\ castText' = text
        /\ words' = Split(text, SP)
  /\ lines' = InitialLines
  /\ currentLine' = <<>>
  /\ i' = 1
  /\ rpc' = "wrap"
  /\ UNCHANGED <<renderArgs, clock, textBoxHeight, maxVisibleLines,
                 visibleLines, vi, truncatedLine, tokenY, buffer>>

wrapFrame ==
  <<renderArgs, clock, castText, words, textBoxHeight, maxVisibleLines,
    visibleLines, vi, truncatedLine, tokenY, drawn, buffer>>

InWrapLoop == rpc = "wrap" /\ i <= Len(words)

testLine ==
  currentLine \o (IF currentLine # <<>> THEN <<SP>> ELSE <<>>) \o words[i]

\* The width test measures the current line instead of the candidate line.
Overflows_MeasuresCurrent ==
  Measure36(currentLine) > maxWidth /\ currentLine # <<>>

\* line 266: the candidate line is too wide and there is a line to flush
Overflows == Measure36(testLine) > maxWidth /\ currentLine # <<>>

\* The break is treated as a space: the parts join the current line.
WrapForcedBreak_JoinsParts ==
  /\ InWrapLoop
  /\ Includes(words[i], NL)
  /\ LET parts == Split(words[i], NL)
         joined == currentLine \o
                   (IF currentLine # <<>> /\ parts[1] # <<>> THEN <<SP>> ELSE <<>>)
                   \o parts[1]
     IN /\ lines' = lines \o SubSeq(parts, 2, Len(parts) - 1)
        /\ currentLine' = joined \o
             (IF joined # <<>> /\ parts[Len(parts)] # <<>> THEN <<SP>> ELSE <<>>)
             \o parts[Len(parts)]
  /\ i' = i + 1
  /\ rpc' = rpc
  /\ UNCHANGED wrapFrame

\* lines 243-261: the word holds a line break
WrapForcedBreak ==
  /\ InWrapLoop
  /\ Includes(words[i], NL)
  /\ LET parts == Split(words[i], NL)
         first ==
           IF currentLine # <<>>
             THEN << currentLine \o
                     (IF parts[1] # <<>> THEN <<SP>> \o parts[1] ELSE <<>>) >>
             ELSE IF parts[1] # <<>> THEN <<parts[1]>> ELSE <<>>
         interior == SubSeq(parts, 2, Len(parts) - 1)
     IN /\ lines' = lines \o first \o interior
        /\ currentLine' = IF Len(parts) > 1 THEN parts[Len(parts)] ELSE <<>>
  /\ i' = i + 1
  /\ rpc' = rpc
  /\ UNCHANGED wrapFrame

\* lines 263-268: the word does not fit on the current line
WrapPlainFlush ==
  /\ InWrapLoop
  /\ ~Includes(words[i], NL)
  /\ Overflows
  /\ lines' = Append(lines, currentLine)
  /\ currentLine' = words[i]
  /\ i' = i + 1
  /\ rpc' = rpc
  /\ UNCHANGED wrapFrame

\* lines 263-266, 269-271: the word joins the current line
WrapPlainAppend ==
  /\ InWrapLoop
  /\ ~Includes(words[i], NL)
  /\ ~Overflows
  /\ currentLine' = testLine
  /\ i' = i + 1
  /\ rpc' = rpc
  /\ UNCHANGED <<lines, wrapFrame>>

\* The last line is not flushed.
WrapFinalFlush_NoFlush ==
  /\ rpc = "wrap"
  /\ i > Len(words)
  /\ rpc' = "layout"
  /\ UNCHANGED <<lines, i, currentLine, wrapFrame>>

\* lines 240, 274-276: the loop ends and the last line is flushed
WrapFinalFlush ==
  /\ rpc = "wrap"
  /\ i > Len(words)
  /\ lines' = IF currentLine # <<>> THEN Append(lines, currentLine) ELSE lines
  /\ rpc' = "layout"
  /\ UNCHANGED <<i, currentLine, wrapFrame>>

\* The count of visible lines is rounded up.
MaxVisible_RoundsUp(h) ==
  (h - textBoxPadding * 2 + lineHeight - 1) \div lineHeight

\* lines 336-338: Math.floor((textBoxHeight - textBoxPadding * 2) / lineHeight)
MaxVisible(h) == (h - textBoxPadding * 2) \div lineHeight

\* lines 280-291: the height of the text box for n wrapped lines
BoxHeight(n) == Min(n * lineHeight + textBoxPadding * 2, maxTextBoxHeight)

\* lines 278-342: the text box and the visible lines
LayoutTextBox ==
  /\ rpc = "layout"
  /\ LET h == BoxHeight(Len(lines))
         n == MaxVisible(h)
     IN /\ textBoxHeight' = h
        /\ maxVisibleLines' = n
        /\ visibleLines' = Take(lines, n)
        /\ drawn' = Append(drawn, Draw("roundRect", <<>>, 120, textBoxY, h))
  /\ vi' = 1
  /\ rpc' = "drawlines"
  /\ UNCHANGED <<renderArgs, clock, castText, words, i, lines, currentLine,
                 truncatedLine, tokenY, buffer>>

drawFrame ==
  <<renderArgs, clock, castText, words, i, lines, currentLine, textBoxHeight,
    maxVisibleLines, visibleLines, tokenY, buffer>>

\* y of the line drawn in iteration vi (lines 342, 355)
LineY(k) == textBoxY + textBoxPadding + lineHeight \div 2 + (k - 1) * lineHeight

\* line 345: this is the last visible line and lines were cut
IsTruncatedLast == vi = maxVisibleLines /\ Len(lines) > maxVisibleLines

\* lines 343-345, 352-355: a line drawn as it is
DrawLine ==
  /\ rpc = "drawlines"
  /\ vi <= Len(visibleLines)
  /\ ~IsTruncatedLast
  /\ drawn' = Append(drawn,
        Draw("fillText", visibleLines[vi], 120 + textBoxPadding, LineY(vi), 36))
  /\ vi' = vi + 1
  /\ rpc' = rpc
  /\ UNCHANGED <<truncatedLine, drawFrame>>

\* The line is measured without the ellipsis.
TooWide_WithoutEllipsis(line) == Measure36(line) > maxWidth

\* line 348: ctx.measureText(`${truncatedLine}...`).width > maxWidth
TooWide(line) == Measure36(line \o Ellipsis) > maxWidth

\* lines 345-347: the last visible line of a truncated text
EllipsisStart ==
  /\ rpc = "drawlines"
  /\ vi <= Len(visibleLines)
  /\ IsTruncatedLast
  /\ truncatedLine' = visibleLines[vi]
  /\ rpc' = "ellipsis"
  /\ UNCHANGED <<vi, drawn, drawFrame>>

\* lines 348-350: one iteration of the ellipsis-fitting loop
EllipsisShrink ==
  /\ rpc = "ellipsis"
  /\ TooWide(truncatedLine)
  /\ truncatedLine' = SliceLast(truncatedLine)
  /\ rpc' = rpc
  /\ UNCHANGED <<vi, drawn, drawFrame>>

\* lines 348, 351, 355: the loop ends and the line is drawn
EllipsisDraw ==
  /\ rpc = "ellipsis"
  /\ ~TooWide(truncatedLine)
  /\ drawn' = Append(drawn,
        Draw("fillText", truncatedLine \o Ellipsis, 120 + textBoxPadding,
             LineY(vi), 36))
  /\ vi' = vi + 1
  /\ rpc' = "drawlines"
  /\ UNCHANGED <<truncatedLine, drawFrame>>

\* lines 343, 358-393: the emblem
DrawToken ==
  /\ rpc = "drawlines"
  /\ vi > Len(visibleLines)
  /\ LET ty == textBoxY + textBoxHeight + tokenGap
     IN /\ tokenY' = ty
        /\ drawn' = drawn \o
             << Draw("arc", <<>>, width \div 2, ty, tokenRadius),
                Draw("fillText", FirstUpper(tokenName), width \div 2, ty + 40, 120) >>
  /\ rpc' = "footer"
  /\ UNCHANGED <<renderArgs, clock, castText, words, i, lines, currentLine,
                 textBoxHeight, maxVisibleLines, visibleLines, vi,
                 truncatedLine, buffer>>

footerFrame ==
  <<renderArgs, castText, words, i, lines, currentLine, textBoxHeight,
    maxVisibleLines, visibleLines, vi, truncatedLine, tokenY>>

\* canvas.toBuffer("image/png"): the encoding of what was drawn
ToBuffer(ops) == [png |-> ops]

\* lines 395-407: the footer with new Date().toISOString(), and the return
DrawFooter ==
  /\ rpc = "footer"
  /\ \E now \in clock..MaxClock :
       /\ clock' = now
       /\ drawn' = Append(drawn,
             Draw("fillText", <<"Generated", ToString(now)>>, width \div 2,
                  height - 40, 20))
  /\ buffer' = Some(ToBuffer(drawn'))
  /\ rpc' = "returned"
  /\ UNCHANGED footerFrame

\* lines 407-412: the canvas throws, the function rethrows
RenderThrow ==
  /\ rpc = "footer"
  /\ rpc' = "threw"
  /\ UNCHANGED <<clock, drawn, buffer, footerFrame>>

RenderStep ==
  \/ BeginRender
  \/ WrapForcedBreak
  \/ WrapPlainFlush
  \/ WrapPlainAppend
  \/ WrapFinalFlush
  \/ LayoutTextBox
  \/ DrawLine
  \/ EllipsisStart
  \/ EllipsisShrink
  \/ EllipsisDraw
  \/ DrawToken
  \/ DrawFooter
  \/ RenderThrow

\* ------------------------------------------ the renderer called directly
RenderLocalsInit ==
  /\ castText = <<>> /\ words = <<>> /\ i = 1 /\ lines = <<>>
  /\ currentLine = <<>>
  /\ textBoxHeight = 0 /\ maxVisibleLines = 0 /\ visibleLines = <<>>
  /\ vi = 1 /\ truncatedLine = <<>> /\ tokenY = 0
  /\ drawn = <<>>
  /\ buffer = None
  /\ prevBuffer = None

PipelineUnused ==
  /\ ppc = "direct"
  /\ castData = None /\ llmResult = None /\ imageBuffer = None
  /\ ipfsResult = None /\ deployResult = None
  /\ files = <<>> /\ calls = <<>>

\* One call generateImageForCast(castInfo, tokenName), as at line 587.
Init ==
  /\ backend \in Backends
  /\ castInfo \in Casts
  /\ tokenName \in TokenNames
  /\ clock = 0
  /\ rpc = "start"
  /\ callNo = 1
  /\ RenderLocalsInit
  /\ PipelineUnused

Next == RenderStep

Spec == Init /\ [][Next]_vars

\* Two calls generateImageForCast(castInfo, tokenName) with the same
\* arguments, one after the other.
CallAgain ==
  /\ rpc = "returned"
  /\ ppc = "direct"
  /\ callNo = 1
  /\ callNo' = 2
  /\ prevBuffer' = buffer
  /\ rpc' = "start"
  /\ UNCHANGED <<backend, castInfo, tokenName, clock, renderLocals, drawn,
                 buffer, pipeVars>>

RepeatInit ==
  /\ backend \in Backends
  /\ castInfo \in SampleCasts
  /\ tokenName \in TokenNames
  /\ clock = 0
  /\ rpc = "start"
  /\ callNo = 1
  /\ RenderLocalsInit
  /\ PipelineUnused

RepeatNext == RenderStep \/ CallAgain

RepeatSpec == RepeatInit /\ [][RepeatNext]_vars

\* --------------------------------------------------- processTrendingCasts
\* What the feed may answer: no casts field, no cast, one cast, three casts.
Feeds ==
  { [casts |-> None],
    [casts |-> Some(<<>>)],
    [casts |-> Some(<<MkCast(ScenarioText, "0xb", <<"v">>, <<"a","a","a","a">>)>>)],
    [casts |-> Some(<< MkCast(Repeat(<<"a", NL>>, 8), "0xc", <<"w">>, <<"a">>),
                       MkCast(<<>>, "0xa", <<"u">>, <<>>),
                       MkCast(<<"a"," ","a"," ","a">>, "0xd", <<"u">>, <<>>) >>)] }

CIDs == {"bafy1", "bafy2"}

\* the stage functions and file writes of processTrendingCasts, in the
\* order of lines 560-652
StageOrder ==
  <<"getTrendingCasts", "selectBestCastWithLLM", "generateImageForCast",
    "uploadImageToIPFS", "saveImage", "saveMetadata", "deployToken">>

NoCast == MkCast(<<>>, "", <<>>, <<>>)

renderState ==
  <<castInfo, tokenName, rpc, renderLocals, drawn, buffer, clock, backend,
    prevBuffer, callNo>>

\* lines 671-675: the catch of processTrendingCasts: the invocation fails
Fails == ppc' = "failed"

\* lines 560-566, 76-90
GetTrendingCasts ==
  /\ ppc = "start"
  /\ calls' = Append(calls, "getTrendingCasts")
  /\ \E feed \in Feeds : castData' = Some(feed)
  /\ ppc' = "fetched"
  /\ UNCHANGED <<llmResult, imageBuffer, ipfsResult, deployResult, files,
                 renderState>>

\* lines 561, 91-95
GetTrendingCastsThrows ==
  /\ ppc = "start"
  /\ calls' = Append(calls, "getTrendingCasts")
  /\ Fails
  /\ UNCHANGED <<castData, llmResult, imageBuffer, ipfsResult, deployResult,
                 files, renderState>>

\* lines 568-570, 101-167
SelectBestCastWithLLM ==
  /\ ppc = "fetched"
  /\ castData[1].casts # None
  /\ calls' = Append(calls, "selectBestCastWithLLM")
  /\ \E resp \in LLMResponses :
       llmResult' = Some(ParseLLM(castData[1].casts[1], resp))
  /\ ppc' = "selected"
  /\ UNCHANGED <<castData, imageBuffer, ipfsResult, deployResult, files,
                 renderState>>

\* lines 570, 105, 123, 168-172: casts is undefined or the model's API fails
SelectBestCastWithLLMThrows ==
  /\ ppc = "fetched"
  /\ calls' = Append(calls, "selectBestCastWithLLM")
  /\ Fails
  /\ UNCHANGED <<castData, llmResult, imageBuffer, ipfsResult, deployResult,
                 files, renderState>>

\* lines 572-575: llmResult.cast.text of an undefined cast
LogSelectionThrows ==
  /\ ppc = "selected"
  /\ llmResult[1].cast = None
  /\ Fails
  /\ UNCHANGED <<castData, llmResult, imageBuffer, ipfsResult, deployResult,
                 files, calls, renderState>>

\* lines 572-590: the call of generateImageForCast
CallGenerateImage ==
  /\ ppc = "selected"
  /\ llmResult[1].cast # None
  /\ calls' = Append(calls, "generateImageForCast")
  /\ castInfo' = llmResult[1].cast[1]
  /\ tokenName' = llmResult[1].tokenName
  /\ rpc' = "start"
  /\ ppc' = "render"
  /\ UNCHANGED <<castData, llmResult, imageBuffer, ipfsResult, deployResult,
                 files, renderLocals, drawn, buffer, clock, backend,
                 prevBuffer, callNo>>

\* lines 587-595: the image is returned and written to a temporary file
ImageGenerated ==
  /\ ppc = "render"
  /\ rpc = "returned"
  /\ imageBuffer' = buffer
  /\ files' = Append(files, [dir |-> "/tmp", content |-> buffer])
  /\ ppc' = "rendered"
  /\ UNCHANGED <<castData, llmResult, ipfsResult, deployResult, calls,
                 renderState>>

\* lines 587, 408-412
GenerateImageThrows ==
  /\ ppc = "render"
  /\ rpc = "threw"
  /\ Fails
  /\ UNCHANGED <<castData, llmResult, imageBuffer, ipfsResult, deployResult,
                 files, calls, renderState>>

\* The error of the upload is logged and not thrown again.
UploadImageToIPFSThrows_Swallowed ==
  /\ ppc = "rendered"
  /\ calls' = Append(calls, "uploadImageToIPFS")
  /\ ppc' = "uploaded"
  /\ UNCHANGED <<castData, llmResult, imageBuffer, ipfsResult, deployResult,
                 files, renderState>>

\* lines 597-604, 415-456
UploadImageToIPFS ==
  /\ ppc = "rendered"
  /\ calls' = Append(calls, "uploadImageToIPFS")
  /\ \E cid \in CIDs :
       ipfsResult' = Some([cid |-> cid, url |-> <<"https://gateway.pinata.cloud/ipfs/", cid>>])
  /\ ppc' = "uploaded"
  /\ UNCHANGED <<castData, llmResult, imageBuffer, deployResult, files,
                 renderState>>

\* lines 599, 457-461
UploadImageToIPFSThrows ==
  /\ ppc = "rendered"
  /\ calls' = Append(calls, "uploadImageToIPFS")
  /\ Fails
  /\ UNCHANGED <<castData, llmResult, imageBuffer, ipfsResult, deployResult,
                 files, renderState>>

\* lines 606-611
SaveImage ==
  /\ ppc = "uploaded"
  /\ calls' = Append(calls, "saveImage")
  /\ files' = Append(files, [dir |-> "images", content |-> imageBuffer])
  /\ ppc' = "imageSaved"
  /\ UNCHANGED <<castData, llmResult, imageBuffer, ipfsResult, deployResult,
                 renderState>>

\* lines 609-610: mkdirSync or writeFileSync throws
SaveImageThrows ==
  /\ ppc = "uploaded"
  /\ calls' = Append(calls, "saveImage")
  /\ Fails
  /\ UNCHANGED <<castData, llmResult, imageBuffer, ipfsResult, deployResult,
                 files, renderState>>

\* lines 613-637
SaveMetadata ==
  /\ ppc = "imageSaved"
  /\ calls' = Append(calls, "saveMetadata")
  /\ files' = Append(files,
       [dir |-> "data",
        content |-> Some([selectedCast |-> llmResult[1].cast[1],
                          tokenName |-> llmResult[1].tokenName,
                          ipfs |-> ipfsResult[1]])])
  /\ ppc' = "metadataSaved"
  /\ UNCHANGED <<castData, llmResult, imageBuffer, ipfsResult, deployResult,
                 renderState>>

\* lines 633-634: mkdirSync or writeFileSync throws
SaveMetadataThrows ==
  /\ ppc = "imageSaved"
  /\ calls' = Append(calls, "saveMetadata")
  /\ Fails
  /\ UNCHANGED <<castData, llmResult, imageBuffer, ipfsResult, deployResult,
                 files, renderState>>

\* lines 639-652, 464-522
DeployToken ==
  /\ ppc = "metadataSaved"
  /\ calls' = Append(calls, "deployToken")
  /\ deployResult' =
       Some([media |-> <<"ipfs://", ipfsResult[1].cid>>,
             name |-> llmResult[1].tokenName,
             symbol |-> ToUpperCase(Substring0(llmResult[1].tokenName, 4))])
  /\ ppc' = "deployed"
  /\ UNCHANGED <<castData, llmResult, imageBuffer, ipfsResult, files,
                 renderState>>

\* lines 648, 506-517, 523-543
DeployTokenThrows ==
  /\ ppc = "metadataSaved"
  /\ calls' = Append(calls, "deployToken")
  /\ Fails
  /\ UNCHANGED <<castData, llmResult, imageBuffer, ipfsResult, deployResult,
                 files, renderState>>

\* lines 654-670: processTrendingCasts returns
Finish ==
  /\ ppc = "deployed"
  /\ ppc' = "done"
  /\ UNCHANGED <<castData, llmResult, imageBuffer, ipfsResult, deployResult,
                 files, calls, renderState>>

\* One invocation of processTrendingCasts (line 707).
PipelineInit ==
  /\ backend \in Backends
  /\ castInfo = NoCast
  /\ tokenName = <<>>
  /\ clock = 0
  /\ rpc = "idle"
  /\ callNo = 0
  /\ RenderLocalsInit
  /\ ppc = "start"
  /\ castData = None /\ llmResult = None /\ imageBuffer = None
  /\ ipfsResult = None /\ deployResult = None
  /\ files = <<>> /\ calls = <<>>

PipelineNext ==
  \/ GetTrendingCasts
  \/ GetTrendingCastsThrows
  \/ SelectBestCastWithLLM
  \/ SelectBestCastWithLLMThrows
  \/ LogSelectionThrows
  \/ CallGenerateImage
  \/ RenderStep
  \/ ImageGenerated
  \/ GenerateImageThrows
  \/ UploadImageToIPFS
  \/ UploadImageToIPFSThrows
  \/ SaveImage
  \/ SaveImageThrows
  \/ SaveMetadata
  \/ SaveMetadataThrows
  \/ DeployToken
  \/ DeployTokenThrows
  \/ Finish

PipelineSpec == PipelineInit /\ [][PipelineNext]_vars

\* ------------------------------------------------------ words and lines
RECURSIVE Flatten(_)
Flatten(xss) == IF xss = <<>> THEN <<>> ELSE Head(xss) \o Flatten(Tail(xss))

NonEmpty(xs) == SelectSeq(xs, LAMBDA x : x # <<>>)

\* the words between the spaces of a string without line breaks
SpaceWords(s) == NonEmpty(Split(s, SP))

\* the words of a text, for each stretch between two line breaks
BreakGroups(s) ==
  LET segs == Split(s, NL)
  IN NonEmpty([k \in 1..Len(segs) |-> SpaceWords(segs[k])])

\* the words of a text: what lies between spaces and line breaks
WordsOf(s) == Flatten(BreakGroups(s))

\* the words of each wrapped line that holds any
LineGroups(ls) == NonEmpty([k \in 1..Len(ls) |-> WordsOf(ls[k])])

\* groups, in order, cut segs into pieces: every group lies inside one
\* segment and the groups of a segment, concatenated, are the segment
RECURSIVE Refines(_, _)
Refines(groups, segs) ==
  IF segs = <<>> THEN groups = <<>>
  ELSE IF groups = <<>> THEN FALSE
  ELSE LET g == Head(groups)
           sg == Head(segs)
       IN IF Len(g) > Len(sg) \/ g # SubSeq(sg, 1, Len(g)) THEN FALSE
          ELSE IF Len(g) = Len(sg) THEN Refines(Tail(groups), Tail(segs))
          ELSE Refines(Tail(groups),
                       <<SubSeq(sg, Len(g) + 1, Len(sg))>> \o Tail(segs))

Wrapped == rpc \in {"layout", "drawlines", "ellipsis", "footer", "returned", "threw"}
LaidOut == rpc \in {"drawlines", "ellipsis", "footer", "returned", "threw"}
EmblemDrawn == rpc \in {"footer", "returned", "threw"}

\* ------------------------------------------------------------------ C1
\* C1 as stated: every wrapped line measures at most maxWidth.
C1_EveryLineFits ==
  \A k \in 1..Len(lines) : Measure36(lines[k]) <= maxWidth

\* C1, amended: a line flushed by the plain-word branch or by the final
\* flush measures at most maxWidth or holds a single word (no space).
C1_PlainLinesFitOrSingleWord ==
  [][ ( /\ rpc = "wrap"
        /\ (i > Len(words) \/ ~Includes(words[i], NL))
        /\ Len(lines') = Len(lines) + 1 )
      => LET l == lines'[Len(lines')]
         IN Measure36(l) <= maxWidth \/ ~Includes(l, SP) ]_vars

\* A text without line breaks was wrapped into several lines, one of them of
\* several words.
C1_Witness ==
  /\ rpc = "layout"
  /\ ~Includes(castText, NL)
  /\ Len(lines) >= 2
  /\ \E k \in 1..Len(lines) : Len(WordsOf(lines[k])) >= 2

\* ------------------------------------------------------------------ C2
\* C2: the words of the wrapped lines, in line order, are the words of the
\* text the wrap loop was given.
C2_WordsPreserved == Wrapped => Flatten(LineGroups(lines)) = WordsOf(castText)

C2_Witness ==
  /\ rpc = "layout"
  /\ Includes(castText, NL)
  /\ Len(WordsOf(castText)) >= 4
  /\ Len(lines) >= 3
  /\ \E k \in 1..Len(lines) : Len(WordsOf(lines[k])) >= 2

\* ------------------------------------------------------------------ C3
\* C3: the number of visible lines is floor((boxHeight - 2*padding) /
\* lineHeight) when the text is truncated and the number of wrapped lines
\* otherwise, boxHeight being min(lines*lineHeight + 2*padding, 460).
C3_VisibleLineCount ==
  LaidOut =>
    LET boxHeight ==
          IF Len(lines) * lineHeight + 2 * textBoxPadding < maxTextBoxHeight
            THEN Len(lines) * lineHeight + 2 * textBoxPadding
            ELSE maxTextBoxHeight
        floor == CHOOSE n \in 0..boxHeight :
                   /\ n * lineHeight <= boxHeight - 2 * textBoxPadding
                   /\ (n + 1) * lineHeight > boxHeight - 2 * textBoxPadding
    IN /\ textBoxHeight = boxHeight
       /\ Len(lines) > maxVisibleLines => Len(visibleLines) = floor
       /\ ~(Len(lines) > maxVisibleLines) => Len(visibleLines) = Len(lines)

C3_Witness ==
  /\ LaidOut
  /\ Len(lines) > maxVisibleLines
  /\ Len(visibleLines) = 7
  /\ textBoxHeight = maxTextBoxHeight

\* ------------------------------------------------------------------ C4
\* the drawing call of the k-th text line inside the box
IsLineDraw(d, k) ==
  d.op = "fillText" /\ d.x = 120 + textBoxPadding /\ d.y = LineY(k)

\* C4: when the text is truncated, what is drawn for the last visible line
\* ends in "..." and measures at most maxWidth.
C4_EllipsisLineFits ==
  (LaidOut /\ Len(lines) > maxVisibleLines) =>
    \A k \in 1..Len(drawn) :
      IsLineDraw(drawn[k], maxVisibleLines) =>
        /\ Measure36(drawn[k].text) <= maxWidth
        /\ Len(drawn[k].text) >= 3
        /\ SubSeq(drawn[k].text, Len(drawn[k].text) - 2, Len(drawn[k].text))
             = Ellipsis

\* A truncated text whose last visible line was shortened to fit.
C4_Witness ==
  /\ LaidOut /\ Len(lines) > maxVisibleLines
  /\ \E k \in 1..Len(drawn) :
       /\ IsLineDraw(drawn[k], maxVisibleLines)
       /\ Len(drawn[k].text) < Len(visibleLines[maxVisibleLines]) + 3

\* ------------------------------------------------------------------ C5
\* C5 as stated: the ellipsis-fitting loop ends for every line, at the
\* latest with the empty line plus "...": once the line is empty the loop's
\* condition is false.  (An iteration on the empty line leaves it empty, so
\* a loop whose condition holds there never ends.)
C5_LoopEndsAtEmptyLine ==
  (rpc = "ellipsis" /\ truncatedLine = <<>>) => ~TooWide(truncatedLine)

\* ------------------------------------------------------------------ C7
\* C7 as stated: an empty cast text wraps to zero lines and a box of
\* 2*padding.
C7_EmptyTextNoLines ==
  (castInfo.text = <<>> /\ Wrapped) =>
    /\ lines = <<>>
    /\ LaidOut => textBoxHeight = 2 * textBoxPadding

\* C7, amended: for an empty cast text the placeholder "No cast text
\* available" is wrapped: at least one line, holding the placeholder's
\* words, in a box of at least 2*padding + lineHeight.
C7_EmptyTextWrapsPlaceholder ==
  (castInfo.text = <<>> /\ Wrapped) =>
    /\ castText = Placeholder
    /\ Len(lines) >= 1
    /\ Flatten(LineGroups(lines)) = WordsOf(Placeholder)
    /\ LaidOut => textBoxHeight >= 2 * textBoxPadding + lineHeight

C7_Witness ==
  /\ castInfo.text = <<>>
  /\ rpc = "returned"
  /\ lines = <<Placeholder>>

\* ------------------------------------------------------------------ C8
\* C8: no wrapped line holds a line break, no wrapped line holds words from
\* both sides of a line break, and "line one\nline two" wraps to the lines
\* "line one" and "line two" when each of them fits.
C8_ForcedBreakSeparates ==
  Wrapped =>
    /\ \A k \in 1..Len(lines) : ~Includes(lines[k], NL)
    /\ Refines(LineGroups(lines), BreakGroups(castText))
    /\ (castText = ScenarioText
          /\ Measure36(<<"l","i","n","e"," ","o","n","e">>) <= maxWidth
          /\ Measure36(<<"l","i","n","e"," ","t","w","o">>) <= maxWidth)
        => lines = << <<"l","i","n","e"," ","o","n","e">>,
                      <<"l","i","n","e"," ","t","w","o">> >>

C8_Witness ==
  /\ rpc = "returned"
  /\ castText = ScenarioText
  /\ lines = << <<"l","i","n","e"," ","o","n","e">>,
                <<"l","i","n","e"," ","t","w","o">> >>
  /\ Len(visibleLines) = 2

\* ----------------------------------------------------------------- C10
\* C10 as stated: the top of the emblem circle is below the bottom edge of
\* the text box and the bottom of the circle is inside the canvas.
C10_EmblemBelowBox ==
  EmblemDrawn =>
    /\ tokenY - tokenRadius > textBoxY + textBoxHeight
    /\ tokenY + tokenRadius <= height

\* ------------------------------------------------------------------ C6
BothReturned == callNo = 2 /\ rpc = "returned"

\* C6 as stated: two calls with the same cast and token name return the
\* same buffer.
C6_SameBuffer == BothReturned => buffer = prevBuffer

\* C6, amended: two calls with the same cast and token name make the same
\* drawing calls but for the text of the last one, the footer, which holds
\* the time of the call; when the two times are the same string the two
\* buffers are the same.
C6_SameButTimestamp ==
  BothReturned =>
    LET a == prevBuffer[1].png
        b == buffer[1].png
    IN /\ Len(a) = Len(b)
       /\ \A k \in 1..(Len(a) - 1) : a[k] = b[k]
       /\ [a[Len(a)] EXCEPT !.text = <<>>] = [b[Len(b)] EXCEPT !.text = <<>>]
       /\ a[Len(a)].y = height - 40
       /\ a[Len(a)].text = b[Len(b)].text => buffer = prevBuffer

\* Two calls on a truncated text returned the same buffer.
C6_Witness ==
  /\ BothReturned
  /\ buffer = prevBuffer
  /\ Len(lines) > maxVisibleLines

\* ------------------------------------------------------------------ C9
\* what stage k of StageOrder returned or wrote, None before it completed
StageResult(k) ==
  CASE k = 1 -> castData
    [] k = 2 -> llmResult
    [] k = 3 -> imageBuffer
    [] k = 4 -> ipfsResult
    [] k = 5 -> SelectSeq(files, LAMBDA f : f.dir = "images")
    [] k = 6 -> SelectSeq(files, LAMBDA f : f.dir = "data")
    [] k = 7 -> deployResult

\* C9: the stages are started in the fixed order, each at most once and
\* only after the one before it completed; deployToken is started only with
\* the cid uploadImageToIPFS returned; the invocation ends successfully only
\* when all seven completed; after a failure nothing more is started.
C9_StagesInOrder ==
  /\ [](/\ Len(calls) <= Len(StageOrder)
        /\ calls = SubSeq(StageOrder, 1, Len(calls))
        /\ \A k \in 2..Len(calls) : StageResult(k - 1) # None
        /\ \A k \in 1..Len(StageOrder) :
             StageResult(k) # None => k <= Len(calls)
        /\ (Len(calls) = 7 =>
              /\ ipfsResult # None
              /\ deployResult # None =>
                   deployResult[1].media = <<"ipfs://", ipfsResult[1].cid>>)
        /\ (ppc = "done" =>
              \A k \in 1..Len(StageOrder) : StageResult(k) # None))
  /\ [][ppc = "failed" => (ppc' = "failed" /\ calls' = calls)]_vars

C9_Witness ==
  /\ ppc = "done"
  /\ calls = StageOrder
  /\ Len(lines) > maxVisibleLines

\* ----------------------------------------------------------------- C11
\* C11 as stated: for a non-empty list of casts, the cast
\* selectBestCastWithLLM returns is never undefined, it is one of the casts
\* shown to the model (its index is within 0 .. min(10, casts.length) - 1),
\* and it is the first cast when the response holds no "Cast N".
C11_SelectedCastWasShown ==
  (/\ llmResult # None
   /\ castData # None
   /\ castData[1].casts # None
   /\ castData[1].casts[1] # <<>>) =>
    LET casts == castData[1].casts[1]
        shown == ShownCasts(casts)
        r == llmResult[1]
    IN /\ r.cast # None
       /\ \E k \in 1..Len(shown) : r.cast[1] = shown[k]
       /\ CastNumberMatch(Some(r.llmResponse)) = None => r.cast[1] = casts[1]

====
